---- MODULE Spec2Model ----
(***************************************************************************)
(* Model of the GPT-Image-1 MCP server: option normalisation               *)
(* (utils/params.ts), the DalleService image operations and their          *)
(* response reconciliation.                                                *)
(*                                                                         *)
(* Strings are sequences of one-character strings, so that the regular     *)
(* expression, the split and parseInt of normalizeSize are computed on the *)
(* characters.  An optional argument is a record [present, str].           *)
(***************************************************************************)
EXTENDS Integers, Sequences, FiniteSets, TLC

VARIABLES
    sizeIn,     \* normalizeSize: the size argument
    sizeOut,    \* normalizeSize: the value returned, NoSize before the call
    cwd,        \* process.cwd(), an absolute path
    fs,         \* the filesystem: directories, their write permission, files
    dirIn,      \* resolveSaveDir: the saveDir argument
    dirOut,     \* resolveSaveDir: the path returned, NoDir before the call
    op,         \* DalleService: the image operation called
    args,       \* DalleService: the options of the call
    pc,         \* DalleService: where the call stands
    saveDir,    \* DalleService: const saveDir
    response,   \* DalleService: response.data of the provider request
    idx,        \* DalleService: the loop index i (0-based)
    imagePaths, \* DalleService: const imagePaths / resultImagePaths
    result,     \* DalleService: the ImageGenerationResult returned
    requests,   \* number of generation/edit requests sent to the provider
    reqIn,      \* request building: the operation and the caller's options
    reqOut,     \* request building: requestParams / formData, NoRequest before
    maskIn,     \* mask rasterization: args.mask_shapes
    maskOut,    \* mask rasterization: the SVG made of the shapes, or the fault
    call,       \* tool call: request.params (tool name and arguments)
    tpc,        \* tool call: where the request handler stands
    tempMask,   \* tool call: tempMaskPath and the file at that path
    pending,    \* tool call: how the try block of edit_image was left
    mcp,        \* tool call: the responses returned to the client
    serviceCalls, \* tool call: number of calls of a DalleService operation
    now,        \* concurrent calls: Date.now()
    procs,      \* concurrent calls: the state of each call
    disk,       \* concurrent calls: the files of os.tmpdir() and of the save directory
    nameIn,     \* file naming: the operation, its options, the loop index
    nameOut,    \* file naming: the path written and the format requested
    usageIn,    \* token usage: the operation and response.data.usage
    usageOut    \* token usage: the usage field of the successful result

sizeVars == <<sizeIn, sizeOut>>

dirVars == <<dirIn, dirOut>>

opVars == <<op, args, pc, saveDir, response, idx, imagePaths, result, requests>>

reqVars == <<reqIn, reqOut>>

\* the variables of the parts other than normalizeSize, resolveSaveDir and
\* the service call
maskVars == <<maskIn, maskOut>>

toolVars == <<call, tpc, tempMask, pending, mcp, serviceCalls>>

concVars == <<now, procs, disk>>

nameVars == <<nameIn, nameOut>>

usageVars == <<usageIn, usageOut>>

pureVars == <<nameVars, usageVars>>

otherVars == <<reqVars, maskVars, toolVars, concVars, pureVars>>

vars == <<sizeIn, sizeOut, cwd, fs, dirIn, dirOut,
          op, args, pc, saveDir, response, idx, imagePaths, result, requests,
          reqIn, reqOut, maskIn, maskOut,
          call, tpc, tempMask, pending, mcp, serviceCalls,
          now, procs, disk, nameIn, nameOut, usageIn, usageOut>>

\* sizeOut before normalizeSize has returned (no size string is empty)
NoSize == <<>>

Range(s) == {s[i] : i \in 1..Len(s)}

Abs(x) == IF x < 0 THEN -x ELSE x

SetMin(S) == CHOOSE m \in S : \A o \in S : m <= o

SetMax(S) == CHOOSE m \in S : \A o \in S : m >= o

(***************************************************************************)
(* Bounds of the size inputs.                                              *)
(***************************************************************************)
DimStep == 512

MaxDimUnits == 4

(***************************************************************************)
(* Bounds of the filesystem: depth of the directory tree, segments of a    *)
(* saveDir argument.                                                       *)
(***************************************************************************)
MaxDepth == 2

MaxSegs == 2

(***************************************************************************)
(* Bounds of an image operation: the requested count n, the number of      *)
(* items in a provider response.                                           *)
(***************************************************************************)
MaxN == 2

MaxItems == 2

(***************************************************************************)
(* utils/params.ts: normalizeSize                                          *)
(***************************************************************************)
SUPPORTED_SIZES ==
    << <<"1","0","2","4","x","1","0","2","4">>,
       <<"1","0","2","4","x","1","5","3","6">>,
       <<"1","5","3","6","x","1","0","2","4">> >>

AUTO == <<"a","u","t","o">>

Digit == {"0","1","2","3","4","5","6","7","8","9"}

DigitVal(c) ==
    CASE c = "0" -> 0 [] c = "1" -> 1 [] c = "2" -> 2 [] c = "3" -> 3
      [] c = "4" -> 4 [] c = "5" -> 5 [] c = "6" -> 6 [] c = "7" -> 7
      [] c = "8" -> 8 [] c = "9" -> 9

\* parseInt(s, 10) of a non-empty string of decimal digits
RECURSIVE parseInt(_)
parseInt(s) ==
    IF s = <<>> THEN 0
    ELSE 10 * parseInt(SubSeq(s, 1, Len(s) - 1)) + DigitVal(s[Len(s)])

AllDigits(s, from, to) == \A p \in from..to : s[p] \in Digit

\* All <<i, j, k>> such that s[i..j-1] and s[j+1..k] are non-empty digit
\* strings and s[j] is x or X: the substrings /(\d+)x(\d+)/i can match.
SizeMatches(s) ==
    {m \in (1..Len(s)) \X {j \in 1..Len(s) : s[j] \in {"x", "X"}} \X (1..Len(s)) :
        /\ m[1] < m[2]
        /\ m[2] < m[3]
        /\ AllDigits(s, m[1], m[2] - 1)
        /\ AllDigits(s, m[2] + 1, m[3])}

\* size.match(/(\d+)x(\d+)/i): the leftmost match, each group greedy.
\* <<>> stands for null, otherwise <<match[1], match[2]>>.
SizeMatch(s) ==
    LET ms == SizeMatches(s) IN
    IF ms = {} THEN <<>>
    ELSE LET i == SetMin({m[1] : m \in ms})
             j == SetMax({m[2] : m \in {q \in ms : q[1] = i}})
             k == SetMax({m[3] : m \in {q \in ms : q[1] = i /\ q[2] = j}})
         IN  <<SubSeq(s, i, j - 1), SubSeq(s, j + 1, k)>>

\* supportedSize.split('x'): the supported sizes hold exactly one x
SplitX(s) ==
    LET j == CHOOSE p \in 1..Len(s) : s[p] = "x"
    IN  <<SubSeq(s, 1, j - 1), SubSeq(s, j + 1, Len(s))>>

SupportedWidth(ss) == parseInt(SplitX(ss)[1])

SupportedHeight(ss) == parseInt(SplitX(ss)[2])

\* The smallest k that makes k * (w / h) an integer for every supported size:
\* ratios are kept exact as integers over the denominator RatioScale * H.
RatioScale ==
    SetMin({k \in 1..16 : \A c \in 1..Len(SUPPORTED_SIZES) :
        (k * SupportedWidth(SUPPORTED_SIZES[c])) % SupportedHeight(SUPPORTED_SIZES[c]) = 0})

\* |requestedRatio - supportedRatio| in units of 1/(RatioScale * H), H > 0
ratioDifference(W, H, ss) ==
    Abs(W * RatioScale
        - ((SupportedWidth(ss) * RatioScale) \div SupportedHeight(ss)) * H)

\* |requested area - supported area|
areaDifference(W, H, ss) ==
    Abs((W * H) - (SupportedWidth(ss) * SupportedHeight(ss)))

\* Number.MAX_VALUE, the initial minDifference
MAX_VALUE == [kind |-> "max", ratio |-> 0, area |-> 0]

\* combinedScore = ratioDifference * 1000 + areaDifference, as the double the
\* code computes: NaN for 0/0, Infinity for W/0, else the pair (ratio
\* difference in units of 1/(RatioScale*H), area difference).
combinedScore(W, H, ss) ==
    IF H = 0
    THEN [kind |-> IF W = 0 THEN "nan" ELSE "inf",
          ratio |-> 0, area |-> areaDifference(W, H, ss)]
    ELSE [kind |-> "fin",
          ratio |-> ratioDifference(W, H, ss), area |-> areaDifference(W, H, ss)]

\* a < b on the doubles above, for scores of one request WxH
ScoreLess(a, b, H) ==
    CASE a.kind = "nan" \/ b.kind = "nan" -> FALSE
      [] a.kind = "inf" -> FALSE
      [] a.kind = "max" -> b.kind = "inf"
      [] a.kind = "fin" /\ b.kind \in {"inf", "max"} -> TRUE
      [] OTHER ->
           \* 1000*a.ratio/(RatioScale*H) + a.area < 1000*b.ratio/(RatioScale*H) + b.area
           ((1000 * (a.ratio - b.ratio)) \div (RatioScale * H)) < b.area - a.area

\* the closestSize the loop starts from: SUPPORTED_SIZES[0]
InitialClosestRequested(requested) == requested

InitialClosest(requested) == SUPPORTED_SIZES[1]

\* a loop that keeps the size it starts from
KeepInitial(c, closestSize, minDifference, W, H) == closestSize

\* the for loop over SUPPORTED_SIZES, from candidate c on
RECURSIVE ClosestLoop(_, _, _, _, _)
ClosestLoop(c, closestSize, minDifference, W, H) ==
    IF c > Len(SUPPORTED_SIZES) THEN closestSize
    ELSE LET score == combinedScore(W, H, SUPPORTED_SIZES[c])
         IN  IF ScoreLess(score, minDifference, H)
             THEN ClosestLoop(c + 1, SUPPORTED_SIZES[c], score, W, H)
             ELSE ClosestLoop(c + 1, closestSize, minDifference, W, H)

normalizeSize(size) ==
    IF ~size.present \/ size.str = <<>> \/ size.str = AUTO THEN AUTO
    ELSE IF size.str \in Range(SUPPORTED_SIZES) THEN size.str
    ELSE LET match == SizeMatch(size.str) IN
         IF match = <<>> THEN AUTO
         ELSE ClosestLoop(1, InitialClosest(size.str), MAX_VALUE,
                          parseInt(match[1]), parseInt(match[2]))

(***************************************************************************)
(* The size arguments the normalizer is applied to.                        *)
(***************************************************************************)
RECURSIVE ToDigits(_)
ToDigits(n) ==
    LET d == <<"0","1","2","3","4","5","6","7","8","9">>[(n % 10) + 1]
    IN  IF n < 10 THEN <<d>> ELSE Append(ToDigits(n \div 10), d)

SupportedDims ==
    UNION {{SupportedWidth(SUPPORTED_SIZES[c]), SupportedHeight(SUPPORTED_SIZES[c])} :
             c \in 1..Len(SUPPORTED_SIZES)}

Dims == {0, 1} \cup SupportedDims \cup {DimStep * k : k \in 1..MaxDimUnits}

Prefixes == {<<>>, <<"a">>, <<"-">>, <<"1", ".">>}

Suffixes == {<<>>, <<"p", "x">>, <<" ">>}

\* the request "WxH" written with separator x
RequestOf(W, x, H) == ToDigits(W) \o <<x>> \o ToDigits(H)

PatternInputs ==
    {p \o RequestOf(W, x, H) \o s :
        p \in Prefixes, W \in Dims, x \in {"x", "X"}, H \in Dims, s \in Suffixes}

OtherInputs ==
    {<<>>, AUTO, <<"A","U","T","O">>, <<"f","o","o">>, <<"x">>,
     <<"1","0","2","4">>, <<"1","0","2","4","x">>, <<"x","1","0","2","4">>,
     <<"1","0","2","4","*","1","0","2","4">>,
     <<"1","0","2","4"," ","x"," ","1","0","2","4">>,
     <<"a","x","b">>, <<"l","a","r","g","e">>}

SizeInputs ==
    {[present |-> FALSE, str |-> <<>>]}
    \cup {[present |-> TRUE, str |-> s] : s \in PatternInputs \cup OtherInputs}

(***************************************************************************)
(* Paths and the filesystem.  A path string is [abs, segs]: whether it     *)
(* starts with "/", and its segments, "." and ".." included.  The          *)
(* filesystem knows directories and files by their normalized absolute     *)
(* segments.                                                               *)
(***************************************************************************)
Names == {"a"}

Segs == Names \cup {".", ".."}

SeqsUpTo(S, n) == UNION {[1..k -> S] : k \in 0..n}

AllPaths == SeqsUpTo(Names, MaxDepth)

Root == <<>>

Parent(p) == SubSeq(p, 1, Len(p) - 1)

\* path normalization: "." dropped, ".." removes the segment before it
RECURSIVE Normalize(_)
Normalize(segs) ==
    IF segs = <<>> THEN <<>>
    ELSE LET front == Normalize(SubSeq(segs, 1, Len(segs) - 1))
             last == segs[Len(segs)]
         IN  CASE last = "." -> front
               [] last = ".." -> IF front = <<>> THEN <<>> ELSE Parent(front)
               [] OTHER -> Append(front, last)

AbsPath(segs) == [abs |-> TRUE, segs |-> segs]

\* path.isAbsolute(p)
isAbsolute(p) == p.abs

\* path.resolve(base, p) for an absolute base
resolve(base, p) ==
    IF p.abs THEN AbsPath(Normalize(p.segs))
    ELSE AbsPath(Normalize(base.segs \o p.segs))

\* the directory a path string denotes for the operating system
Canon(p) == Normalize(p.segs)

FsStates ==
    {f \in [kind : [AllPaths -> {"none", "dir", "file"}],
            writable : SUBSET AllPaths,
            files : {{}}] :
        /\ f.kind[Root] = "dir"
        /\ \A q \in AllPaths \ {Root} :
              f.kind[q] # "none" => f.kind[Parent(q)] = "dir"
        /\ \A q \in f.writable : f.kind[q] = "dir"}

IsDir(f, p) == f.kind[p] = "dir"

\* fs.ensureDir(p) / fs.ensureDirSync(p): mkdir -p.  [ok, fs]: whether it
\* returned instead of throwing, and the filesystem it leaves.
RECURSIVE ensureDir(_, _)
ensureDir(f, p) ==
    CASE f.kind[p] = "dir" -> [ok |-> TRUE, fs |-> f]
      [] f.kind[p] = "file" -> [ok |-> FALSE, fs |-> f]
      [] OTHER ->
           LET up == ensureDir(f, Parent(p)) IN
           IF ~up.ok \/ Parent(p) \notin up.fs.writable
           THEN [ok |-> FALSE, fs |-> f]
           ELSE [ok |-> TRUE,
                 fs |-> [up.fs EXCEPT !.kind[p] = "dir",
                                      !.writable = @ \cup {p}]]

\* an access test that never fails
accessAlways(f, p) == TRUE

\* fs.access(p, W_OK) / fs.accessSync(p, W_OK) returns instead of throwing
accessW(f, p) == f.kind[p] # "none" /\ p \in f.writable

(***************************************************************************)
(* utils/params.ts: resolveSaveDir                                         *)
(***************************************************************************)
AbsentDir == [present |-> FALSE, abs |-> FALSE, segs |-> <<>>]

\* !saveDir: undefined or the empty string
NoSaveDir(requested) == ~requested.present \/ (~requested.abs /\ requested.segs = <<>>)

\* resolvedPath of resolveSaveDir (lines 80-93)
resolvedPath(requested, baseDir) ==
    IF NoSaveDir(requested) THEN baseDir
    ELSE IF isAbsolute(requested) THEN AbsPath(requested.segs)
    ELSE resolve(baseDir, requested)

\* what resolveSaveDir returns when the directory cannot be used
FallbackRequested(rp, baseDir) == rp

Fallback(rp, baseDir) == baseDir

\* resolveSaveDir(saveDir) with process.cwd() = baseDir on filesystem f:
\* [path, fs], the path returned and the filesystem left behind
resolveSaveDir(requested, baseDir, f) ==
    LET rp == resolvedPath(requested, baseDir)
        made == ensureDir(f, Canon(rp))
    IN  IF ~made.ok THEN [path |-> Fallback(rp, baseDir), fs |-> made.fs]
        ELSE IF ~accessW(made.fs, Canon(rp))
             THEN [path |-> Fallback(rp, baseDir), fs |-> made.fs]
             ELSE [path |-> rp, fs |-> made.fs]

(***************************************************************************)
(* The requested arguments and filesystems resolveSaveDir is applied to.     *)
(***************************************************************************)
NoDir == [abs |-> FALSE, segs |-> <<>>]

EmptyFs ==
    [kind |-> [q \in AllPaths |-> IF q = Root THEN "dir" ELSE "none"],
     writable |-> {Root}, files |-> {}]

DirInputs ==
    {AbsentDir}
    \cup {[present |-> TRUE, abs |-> TRUE, segs |-> g] : g \in SeqsUpTo(Names, MaxSegs)}
    \cup {[present |-> TRUE, abs |-> FALSE, segs |-> g] : g \in SeqsUpTo(Segs, MaxSegs)}

\* the directory the argument asks for lies within the modelled tree
InTree(requested, baseDir) == Canon(resolvedPath(requested, baseDir)) \in AllPaths

(***************************************************************************)
(* services/dalle-service.ts: DalleService.generateImage, editImage,       *)
(* imageToImage, editMultipleImages                                        *)
(***************************************************************************)
Ops == {"generateImage", "editImage", "imageToImage", "editMultipleImages"}

\* a service that never looks for its input files
ReadsNoInput(o) == FALSE

\* the operations that read input image files before the request
ReadsInputImages(o) == o # "generateImage"

\* the operations that check response.data.data before the loop
ChecksDataArray(o) == o \in {"generateImage", "editImage"}

\* What one item of response.data.data holds: a url that can be fetched, a
\* url whose fetch fails, b64_json, image, an image field whose non-empty
\* string decodes to no byte (Buffer.from("=", 'base64') has length 0), or
\* none of these fields.
ItemShapes == {"url", "url_unreachable", "b64_json", "image", "image_nobytes", "other"}

\* the length of the buffer made of an item is 0
DecodesToNothing(shape) == shape = "image_nobytes"

NoResponse == [received |-> FALSE, hasData |-> FALSE, data |-> <<>>]

Responses ==
    {[received |-> TRUE, hasData |-> FALSE, data |-> <<>>]}
    \cup {[received |-> TRUE, hasData |-> TRUE, data |-> d] :
             d \in SeqsUpTo(ItemShapes, MaxItems)}

\* const n = options.n || 1 (an absent n is 0 here)
CountOf(a) == IF a.n = 0 THEN 1 ELSE a.n

\* Whether the bytes of an item are obtained (TRUE) or the loop body throws
\* before writing.  generateImage and editImage: url, then b64_json, then
\* image; imageToImage and editMultipleImages: Buffer.from(item.image).
ItemBytesOk(o, shape) ==
    IF o \in {"generateImage", "editImage"}
    THEN shape \in {"url", "b64_json", "image", "image_nobytes"}
    ELSE shape \in {"image", "image_nobytes"}

\* path.join(saveDir, `${fileName}${n > 1 ? `-${i + 1}` : ''}.${output_format}`):
\* the directory and the suffix number (0: no suffix) of the file of item i
imagePathOf(dir, n, i) ==
    [dir |-> Canon(dir), suffix |-> IF n > 1 THEN i + 1 ELSE 0]

\* fs.writeFile(imagePath, buffer) with the bytes of item i: creates the file
\* or replaces its content
writeFile(f, path, i) ==
    [f EXCEPT !.files =
        {g \in @ : ~(g.dir = path.dir /\ g.suffix = path.suffix)}
        \cup {[dir |-> path.dir, suffix |-> path.suffix, item |-> i]}]

NoResult == [returned |-> FALSE, success |-> FALSE, hasPaths |-> FALSE,
             imagePaths |-> <<>>, hasError |-> FALSE, error |-> ""]

\* a failed result that also carries an (empty) imagePaths
FailureWithPaths(msg) ==
    [returned |-> TRUE, success |-> FALSE, hasPaths |-> TRUE,
     imagePaths |-> <<>>, hasError |-> TRUE, error |-> msg]

\* return { success: false, error }
Failure(msg) == [returned |-> TRUE, success |-> FALSE, hasPaths |-> FALSE,
                 imagePaths |-> <<>>, hasError |-> TRUE, error |-> msg]

\* return { success: true, imagePaths, ... }
Success(paths) == [returned |-> TRUE, success |-> TRUE, hasPaths |-> TRUE,
                   imagePaths |-> paths, hasError |-> FALSE, error |-> ""]

NoArgs == [n |-> 0, saveDirPath |-> AbsentDir, inputsExist |-> TRUE]

OpIdle ==
    /\ op = "none"
    /\ args = NoArgs
    /\ pc = "idle"
    /\ saveDir = NoDir
    /\ response = NoResponse
    /\ idx = 0
    /\ imagePaths = <<>>
    /\ result = NoResult
    /\ requests = 0

(***************************************************************************)
(* The provider request of an operation: requestParams of generateImage,   *)
(* formData of editImage, imageToImage and editMultipleImages              *)
(***************************************************************************)
\* an option the caller did not give, a parameter the request does not have
Undefined == "<undefined>"

OptionNames == {"quality", "background", "moderation", "output_format"}

\* the lists of the includes() tests of generateImage
Allowed ==
    [quality |-> {"auto", "high", "medium", "low"},
     background |-> {"auto", "transparent", "opaque"},
     moderation |-> {"auto", "low"},
     output_format |-> {"png", "jpeg", "webp"}]

\* options.quality || 'auto', ..., options.output_format || 'png'
DefaultOf ==
    [quality |-> "auto", background |-> "auto", moderation |-> "auto",
     output_format |-> "png"]

\* the formats that take output_compression
Compressible == {"webp", "jpeg"}

MinCompression == 0

MaxCompression == 100

\* options.output_compression || 100
DefaultCompression == 100

\* A number is val when whole, val + 1/2 otherwise; given is FALSE for an
\* absent option or parameter.
NoCompression == [given |-> FALSE, whole |-> TRUE, val |-> 0]

Whole(v) == [given |-> TRUE, whole |-> TRUE, val |-> v]

\* typeof c === 'number' && c >= 0 && c <= 100
CompressionInRange(c) ==
    /\ c.given
    /\ c.val >= MinCompression
    /\ IF c.whole THEN c.val <= MaxCompression ELSE c.val < MaxCompression

\* the number is truthy: given and not 0
Truthy(c) == c.given /\ ~(c.whole /\ c.val = 0)

\* options.x || d
OrDefault(x, d) == IF x = Undefined THEN d ELSE x

NoRequest ==
    [built |-> FALSE, quality |-> Undefined, background |-> Undefined,
     moderation |-> Undefined, output_format |-> Undefined,
     output_compression |-> NoCompression]

\* generateImage: if (options.x && [...].includes(options.x)) requestParams.x = options.x
IncludedIfAllowed(o, name) ==
    IF o[name] # Undefined /\ o[name] \in Allowed[name] THEN o[name] ELSE Undefined

\* generateImage: requestParams
generateRequest(o) ==
    LET output_format == OrDefault(o.output_format, DefaultOf.output_format)
    IN  [built |-> TRUE,
         quality |-> IncludedIfAllowed(o, "quality"),
         background |-> IncludedIfAllowed(o, "background"),
         moderation |-> IncludedIfAllowed(o, "moderation"),
         output_format |-> IncludedIfAllowed(o, "output_format"),
         output_compression |->
             IF output_format \in Compressible /\ CompressionInRange(o.output_compression)
             THEN o.output_compression
             ELSE NoCompression]

\* editImage, imageToImage, editMultipleImages: formData.  Every option is
\* replaced by its default when falsy and appended when truthy.
formRequest(o) ==
    LET output_format == OrDefault(o.output_format, DefaultOf.output_format)
        output_compression ==
            IF Truthy(o.output_compression)
            THEN o.output_compression
            ELSE Whole(DefaultCompression)
    IN  [built |-> TRUE,
         quality |-> OrDefault(o.quality, DefaultOf.quality),
         background |-> OrDefault(o.background, DefaultOf.background),
         moderation |-> OrDefault(o.moderation, DefaultOf.moderation),
         output_format |-> output_format,
         output_compression |->
             IF output_format \in Compressible /\ Truthy(output_compression)
             THEN output_compression
             ELSE NoCompression]

\* a value no list of allowed values holds
Unrecognized == "ultra"

OptionValues(name) == {Undefined, Unrecognized} \cup Allowed[name]

CompressionInputs ==
    {NoCompression}
    \cup {Whole(v) : v \in {MinCompression - 1, MinCompression, MinCompression + 1,
                            MaxCompression - 1, MaxCompression, MaxCompression + 1}}
    \cup {[given |-> TRUE, whole |-> FALSE, val |-> v] :
             v \in {MinCompression, MaxCompression - 1, MaxCompression}}

RequestInputs ==
    [op : Ops,
     quality : OptionValues("quality"),
     background : OptionValues("background"),
     moderation : OptionValues("moderation"),
     output_format : OptionValues("output_format"),
     output_compression : CompressionInputs]

NoRequestInput ==
    [op |-> "none", quality |-> Undefined, background |-> Undefined,
     moderation |-> Undefined, output_format |-> Undefined,
     output_compression |-> NoCompression]

(***************************************************************************)
(* tools/index.ts, edit_image: the mask made of args.mask_shapes           *)
(***************************************************************************)
MaxShapes == 2

ShapeTypes == {"rectangle", "circle", "polygon"}

\* One entry of mask_shapes.  value: the JSON value is an object, null or a
\* primitive (number, string, boolean); details: shape.details is truthy;
\* type: shape.type; fieldsOk: the typeof / Array.isArray tests of the case
\* of that type pass.
ShapeEntries ==
    [value : {"object"}, details : BOOLEAN, type : ShapeTypes \cup {"star"},
     fieldsOk : BOOLEAN]
    \cup {[value |-> v, details |-> FALSE, type |-> "star", fieldsOk |-> FALSE] :
             v \in {"null", "primitive"}}

\* reading shape.details throws a TypeError
DetailsThrows(shape) == shape.value = "null"

\* the element a well-formed shape of a type is drawn as
ElementOf == [rectangle |-> "rect", circle |-> "circle", polygon |-> "polygon"]

\* the callback of args.mask_shapes.map: the elements of one entry, none
\* when the entry is skipped
shapeSvg(shape) ==
    IF ~shape.details THEN <<>>
    ELSE IF shape.type \in ShapeTypes
         THEN IF shape.fieldsOk THEN <<ElementOf[shape.type]>> ELSE <<>>
         ELSE <<>>

RECURSIVE JoinSvg(_)
\* .map(...).join('')
JoinSvg(shapes) ==
    IF shapes = <<>> THEN <<>>
    ELSE shapeSvg(Head(shapes)) \o JoinSvg(Tail(shapes))

NoMask == [done |-> FALSE, thrown |-> FALSE, svg |-> <<>>]

\* const shapesSvg = ...; const svgBuffer = Buffer.from(`<svg ...><rect
\* width="100%" height="100%" fill="black"/>${shapesSvg}</svg>`)
maskSvg(shapes) ==
    IF \E k \in 1..Len(shapes) : DetailsThrows(shapes[k])
    THEN [done |-> TRUE, thrown |-> TRUE, svg |-> <<>>]
    ELSE [done |-> TRUE, thrown |-> FALSE, svg |-> <<"black">> \o JoinSvg(shapes)]

MaskIdle == maskIn = <<>> /\ maskOut = NoMask

(***************************************************************************)
(* index.ts, the CallToolRequestSchema handler, and tools/index.ts, the    *)
(* handlers of the tools                                                   *)
(***************************************************************************)
ToolNames ==
    {"multi_image_edit", "image_to_image", "generate_image", "edit_image",
     "validate_api_key"}

\* inputSchema.required of each tool
Required ==
    [multi_image_edit |-> {"prompt", "imagePaths"},
     image_to_image |-> {"imagePath", "prompt"},
     generate_image |-> {"prompt"},
     edit_image |-> {"prompt", "imagePath"},
     validate_api_key |-> {}]

\* the DalleService operation a handler calls
OperationOf ==
    [multi_image_edit |-> "editMultipleImages",
     image_to_image |-> "imageToImage",
     generate_image |-> "generateImage",
     edit_image |-> "editImage"]

\* the fixed beginning of the text a handler returns for a failed result
ErrorPrefix ==
    [multi_image_edit |-> "Error editing multiple images: ",
     image_to_image |-> "Error generating image from input image: ",
     generate_image |-> "Error generating image: ",
     edit_image |-> "Error editing image: "]

\* { content: [{ type: "text", text }] }: the text is its fixed beginning and
\* what it is about
Text(prefix, about) ==
    [content |-> <<[type |-> "text", prefix |-> prefix, about |-> about]>>,
     meta |-> FALSE]

\* A call with default arguments: name is request.params.name, given the
\* required arguments that are in request.params.arguments, pathsTyped
\* whether imagePath, imagePaths and mask have the type of the schema, image
\* the file(s) of imagePath / imagePaths (one of them missing, not an image,
\* or fine), mask the file of args.mask, meta whether request.params._meta
\* is given.  n, saveDirPath and fileName are absent.
DefaultCall(name, given) ==
    [name |-> name, given |-> given, pathsTyped |-> TRUE, image |-> "ok",
     mask |-> "none", mask_shapes |-> <<>>, meta |-> FALSE]

NoCall == DefaultCall("none", {})

NoTempMask == [path |-> FALSE, exists |-> FALSE, svg |-> <<>>]

NoPending == [kind |-> "none", response |-> Text("", "")]

ToolIdle ==
    /\ call = NoCall
    /\ tpc = "idle"
    /\ tempMask = NoTempMask
    /\ pending = NoPending
    /\ mcp = <<>>
    /\ serviceCalls = 0

(***************************************************************************)
(* Two tool calls at a time: the names made of Date.now()                  *)
(***************************************************************************)
MaxClock == 1

MaxTokens == 1

CallIds == {1, 2}

\* no call (as the writer of a file, the sender of a mask)
Nobody == 0

\* no timestamp
Never == 0 - 1

\* A call: tool, at (where it stands), tempMaskPath (the timestamp of
\* `mask-${Date.now()}.png`), fileName (the timestamp of the default file
\* name), maskSent (the call that wrote the mask bytes read for the
\* request), outcome.
NewCall(tool) ==
    [tool |-> tool, at |-> "handler", tempMaskPath |-> Never, fileName |-> Never,
     maskSent |-> Nobody, outcome |-> "none"]

\* the beginning of the default file name of the operation of a tool
FilePrefix ==
    [generate_image |-> "gpt-image-", edit_image |-> "gpt-image-edit-"]

NoDisk == [tmp |-> {}, out |-> {}]

\* the files of a set that have a name
Named(files, name) == {f \in files : f.name = name}

\* a file is created, or replaced, with the bytes of a writer
Written(files, name, writer) ==
    (files \ Named(files, name)) \cup {[name |-> name, by |-> writer]}

ConcIdle == now = 0 /\ procs = <<>> /\ disk = NoDisk

(***************************************************************************)
(* services/dalle-service.ts: the path of the file of a response item.     *)
(* A file name is a tuple of characters; the caller's fileName is a base   *)
(* name (no path separator).                                               *)
(***************************************************************************)
\* the characters of the values of output_format
CharsOf ==
    [png |-> <<"p","n","g">>, jpeg |-> <<"j","p","e","g">>,
     webp |-> <<"w","e","b","p">>, ultra |-> <<"u","l","t","r","a">>]

DigitOf(d) ==
    CASE d = 0 -> "0" [] d = 1 -> "1" [] d = 2 -> "2" [] d = 3 -> "3"
      [] d = 4 -> "4" [] d = 5 -> "5" [] d = 6 -> "6" [] d = 7 -> "7"
      [] d = 8 -> "8" [] d = 9 -> "9"

\* `${k}` for a natural number k
RECURSIVE decimal(_)
decimal(k) ==
    IF k < 10 THEN <<DigitOf(k)>>
    ELSE Append(decimal(k \div 10), DigitOf(k % 10))

\* the beginning of the default file name of each operation
DefaultPrefix ==
    [generateImage |-> <<"g","p","t","-","i","m","a","g","e","-">>,
     editImage |-> <<"g","p","t","-","i","m","a","g","e","-","e","d","i","t","-">>,
     imageToImage |-> <<"g","p","t","-","i","m","g","2","i","m","g","-">>,
     editMultipleImages |-> <<"i","m","a","g","e","-","e","d","i","t","-">>]

NoFileName == [given |-> FALSE, text |-> <<>>]

\* options.fileName || `<prefix>${Date.now()}`
fileNameOf(o) ==
    IF o.fileName.given /\ o.fileName.text # <<>> THEN o.fileName.text
    ELSE DefaultPrefix[o.op] \o decimal(o.now)

Unnumbered(n, i) == <<>>

\* ${n > 1 ? `-${i + 1}` : ''}
Numbered(n, i) == IF n > 1 THEN <<"-">> \o decimal(i + 1) ELSE <<>>

\* the output_format the request carries: requestParams.output_format of
\* generateImage, the output_format field of the form of the other three
sentFormat(o) ==
    IF o.op = "generateImage" THEN IncludedIfAllowed(o, "output_format")
    ELSE OrDefault(o.output_format, DefaultOf.output_format)

NoName ==
    [built |-> FALSE, abs |-> FALSE, dir |-> <<>>, file |-> <<>>,
     output_format |-> Undefined]

\* let imagePath = path.join(saveDir, `${fileName}${...}.${output_format}`);
\* if (!path.isAbsolute(imagePath)) imagePath = path.resolve(process.cwd(), imagePath)
imagePath(o, base) ==
    LET n == CountOf(o)
        output_format == OrDefault(o.output_format, DefaultOf.output_format)
        file == fileNameOf(o) \o Numbered(n, o.i) \o <<".">> \o CharsOf[output_format]
        joined == [abs |-> o.saveDir.abs, segs |-> Normalize(o.saveDir.segs)]
        dir == IF isAbsolute(joined) THEN joined ELSE resolve(base, joined)
    IN  [built |-> TRUE, abs |-> dir.abs, dir |-> dir.segs, file |-> file,
         output_format |-> sentFormat(o)]

FileNames ==
    {NoFileName, [given |-> TRUE, text |-> <<>>], [given |-> TRUE, text |-> <<"a">>],
     [given |-> TRUE, text |-> <<"a","-","1">>]}

NameInputs ==
    [op : Ops,
     saveDir : {AbsPath(g) : g \in SeqsUpTo(Segs, MaxSegs)},
     fileName : FileNames,
     now : 0..MaxClock,
     n : 0..MaxN,
     i : 0..(MaxItems - 1),
     output_format : OptionValues("output_format")]

NoNameInput ==
    [op |-> "none", saveDir |-> NoDir, fileName |-> NoFileName, now |-> 0,
     n |-> 0, i |-> 0, output_format |-> Undefined]

NameIdle == nameIn = NoNameInput /\ nameOut = NoName

(***************************************************************************)
(* services/dalle-service.ts: the token usage of a successful result       *)
(***************************************************************************)
\* a field the object does not have
Absent == [given |-> FALSE, val |-> 0]

Given(v) == [given |-> TRUE, val |-> v]

\* no usage object
NoUsageObject ==
    [present |-> FALSE, total_tokens |-> Absent, input_tokens |-> Absent,
     output_tokens |-> Absent, input_tokens_details |-> Absent]

\* const usage = data.usage ? { total_tokens: data.usage.total_tokens, ... } : undefined
usageOf(u) ==
    IF u.present
    THEN [present |-> TRUE, total_tokens |-> u.total_tokens,
          input_tokens |-> u.input_tokens, output_tokens |-> u.output_tokens,
          input_tokens_details |-> u.input_tokens_details]
    ELSE NoUsageObject

\* imageToImage: return { success: true, imagePaths, model, prompt }
withoutUsage(u) == NoUsageObject

TokenValues == {Absent} \cup {Given(v) : v \in 0..MaxTokens}

UsageObjects ==
    {NoUsageObject}
    \cup [present : {TRUE}, total_tokens : TokenValues, input_tokens : TokenValues,
          output_tokens : TokenValues, input_tokens_details : TokenValues]

NoUsageInput == [op |-> "none", usage |-> NoUsageObject]

NoUsageResult == [returned |-> FALSE, usage |-> NoUsageObject]

UsageIdle == usageIn = NoUsageInput /\ usageOut = NoUsageResult

PureIdle == NameIdle /\ UsageIdle

ReqIdle == reqIn = NoRequestInput /\ reqOut = NoRequest

OtherIdle == ReqIdle /\ MaskIdle /\ ToolIdle /\ ConcIdle /\ PureIdle

SizeIdle == sizeIn = [present |-> FALSE, str |-> <<>>] /\ sizeOut = NoSize

DirIdle == cwd = AbsPath(Root) /\ fs = EmptyFs /\ dirIn = AbsentDir /\ dirOut = NoDir

SizeInit ==
    /\ sizeIn \in SizeInputs
    /\ sizeOut = NoSize
    /\ DirIdle
    /\ OpIdle
    /\ OtherIdle

NormalizeCall ==
    /\ sizeOut = NoSize
    /\ sizeOut' = normalizeSize(sizeIn)
    /\ UNCHANGED <<sizeIn, cwd, fs, dirVars, opVars, otherVars>>

SizeNext == NormalizeCall

SpecSize == SizeInit /\ [][SizeNext]_vars

DirInit ==
    /\ SizeIdle
    /\ OpIdle
    /\ OtherIdle
    /\ fs \in FsStates
    /\ cwd \in {AbsPath(q) : q \in {d \in AllPaths : IsDir(fs, d)}}
    /\ dirIn \in {d \in DirInputs : InTree(d, cwd)}
    /\ dirOut = NoDir

ResolveCall ==
    /\ dirOut = NoDir
    /\ LET r == resolveSaveDir(dirIn, cwd, fs)
       IN  dirOut' = r.path /\ fs' = r.fs
    /\ UNCHANGED <<sizeVars, cwd, dirIn, opVars, otherVars>>

DirNext == ResolveCall

SpecDir == DirInit /\ [][DirNext]_vars

(***************************************************************************)
(* One call of an image operation of DalleService.                         *)
(***************************************************************************)
\* the filesystems of a call: the tree under the first level is empty
OpFsStates ==
    {f \in FsStates : \A q \in AllPaths : Len(q) > 1 => f.kind[q] = "none"}

OpDirInputs ==
    {AbsentDir} \cup {[present |-> TRUE, abs |-> TRUE, segs |-> <<nm>>] : nm \in Names}

Init ==
    /\ SizeIdle
    /\ OtherIdle
    /\ dirIn = AbsentDir
    /\ dirOut = NoDir
    /\ fs \in OpFsStates
    /\ cwd \in {AbsPath(q) : q \in {d \in AllPaths : IsDir(fs, d)}}
    /\ op \in Ops
    /\ args \in {a \in [n : 0..MaxN, saveDirPath : OpDirInputs, inputsExist : BOOLEAN] :
                    ReadsInputImages(op) \/ a.inputsExist}
    /\ pc = "start"
    /\ saveDir = NoDir
    /\ response = NoResponse
    /\ idx = 0
    /\ imagePaths = <<>>
    /\ result = NoResult
    /\ requests = 0

\* a return that sends the call back to the request
ReturnAndRetry(r) == pc' = "request" /\ result' = r

Return(r) == pc' = "done" /\ result' = r

\* const saveDir = resolveSaveDir(options.saveDirPath), then the service's
\* own fs.ensureDir(saveDir) and fs.access(saveDir, W_OK)
CheckSaveDir ==
    /\ pc = "start"
    /\ LET r == resolveSaveDir(args.saveDirPath, cwd, fs)
           made == ensureDir(r.fs, Canon(r.path))
       IN  /\ saveDir' = r.path
           /\ fs' = made.fs
           /\ IF made.ok /\ accessW(made.fs, Canon(r.path))
              THEN pc' = "inputs" /\ UNCHANGED result
              ELSE Return(Failure("Save directory is not writeable or could not be created"))
    /\ UNCHANGED <<sizeVars, dirVars, otherVars, cwd, op, args, response, idx, imagePaths, requests>>

\* if (!await fs.pathExists(imagePath)) return { success: false, ... }, and
\* the same for the mask and for every path of imagePaths
CheckInputs ==
    /\ pc = "inputs"
    /\ IF ReadsInputImages(op) /\ ~args.inputsExist
       THEN Return(Failure("Image file not found"))
       ELSE pc' = "request" /\ UNCHANGED result
    /\ UNCHANGED <<sizeVars, dirVars, otherVars, cwd, fs, op, args, saveDir, response, idx,
                   imagePaths, requests>>

\* await axios.post(...): the provider rejects the request (axios throws and
\* the catch block returns the failure) or answers with response.data
SendRequest ==
    /\ pc = "request"
    /\ requests' = requests + 1
    /\ \/ /\ Return(Failure("GPT-Image API Error"))
          /\ UNCHANGED response
       \/ /\ response' \in Responses
          /\ pc' = "response"
          /\ UNCHANGED result
    /\ UNCHANGED <<sizeVars, dirVars, otherVars, cwd, fs, op, args, saveDir, idx, imagePaths>>

\* generateImage, editImage: if (!data.data || !Array.isArray(data.data) ||
\* data.data.length === 0) throw.  imageToImage, editMultipleImages: the loop
\* header reads data.data.length, a TypeError when data.data is missing.
CheckData ==
    /\ pc = "response"
    /\ IF ChecksDataArray(op)
       THEN IF ~response.hasData \/ Len(response.data) = 0
            THEN Return(Failure("Unexpected API response structure. Missing or empty data array."))
            ELSE pc' = "items" /\ UNCHANGED result
       ELSE IF ~response.hasData
            THEN Return(Failure("Cannot read properties of undefined (reading 'length')"))
            ELSE pc' = "items" /\ UNCHANGED result
    /\ UNCHANGED <<sizeVars, dirVars, otherVars, cwd, fs, op, args, saveDir, response, idx,
                   imagePaths, requests>>

\* one iteration of for (let i = 0; i < data.data.length; i++): the bytes of
\* item i are fetched or decoded, written to imagePath and the path is pushed;
\* a failed fetch, an unrecognized item or a failed write throws
SaveItem ==
    /\ pc = "items"
    /\ idx < Len(response.data)
    /\ LET shape == response.data[idx + 1]
           path == imagePathOf(saveDir, CountOf(args), idx)
       IN  IF ~ItemBytesOk(op, shape)
           THEN /\ Return(Failure("Image data not found"))
                /\ UNCHANGED <<fs, idx, imagePaths>>
           ELSE \/ /\ fs' = writeFile(fs, path, idx)
                   /\ imagePaths' = Append(imagePaths, path)
                   /\ idx' = idx + 1
                   /\ UNCHANGED <<pc, result>>
                \/ /\ Return(Failure("writeFile failed"))
                   /\ UNCHANGED <<fs, idx, imagePaths>>
    /\ UNCHANGED <<sizeVars, dirVars, otherVars, cwd, op, args, saveDir, response, requests>>

\* after the loop: return { success: true, imagePaths, model, prompt, usage }
ReturnSuccess ==
    /\ pc = "items"
    /\ idx >= Len(response.data)
    /\ Return(Success(imagePaths))
    /\ UNCHANGED <<sizeVars, dirVars, otherVars, cwd, fs, op, args, saveDir, response, idx,
                   imagePaths, requests>>

Next ==
    \/ CheckSaveDir
    \/ CheckInputs
    \/ SendRequest
    \/ CheckData
    \/ SaveItem
    \/ ReturnSuccess

Spec == Init /\ [][Next]_vars

(***************************************************************************)
(* The request of one call, built from the caller's options.               *)
(***************************************************************************)
ReqInit ==
    /\ SizeIdle
    /\ PureIdle
    /\ DirIdle
    /\ OpIdle
    /\ MaskIdle
    /\ ToolIdle
    /\ ConcIdle
    /\ reqIn \in RequestInputs
    /\ reqOut = NoRequest

BuildRequest(o, request) ==
    /\ ~reqOut.built
    /\ reqIn.op = o
    /\ reqOut' = request
    /\ UNCHANGED <<pureVars, sizeVars, dirVars, cwd, fs, opVars, reqIn, maskVars, toolVars, concVars>>

BuildGenerateRequest == BuildRequest("generateImage", generateRequest(reqIn))

BuildEditRequest == BuildRequest("editImage", formRequest(reqIn))

BuildImageToImageRequest == BuildRequest("imageToImage", formRequest(reqIn))

BuildMultiEditRequest == BuildRequest("editMultipleImages", formRequest(reqIn))

ReqNext ==
    \/ BuildGenerateRequest
    \/ BuildEditRequest
    \/ BuildImageToImageRequest
    \/ BuildMultiEditRequest

SpecReq == ReqInit /\ [][ReqNext]_vars

(***************************************************************************)
(* The mask of one mask_shapes list.                                       *)
(***************************************************************************)
MaskInit ==
    /\ SizeIdle
    /\ PureIdle
    /\ DirIdle
    /\ OpIdle
    /\ ReqIdle
    /\ ToolIdle
    /\ ConcIdle
    /\ maskIn \in SeqsUpTo(ShapeEntries, MaxShapes) \ {<<>>}
    /\ maskOut = NoMask

BuildMask ==
    /\ ~maskOut.done
    /\ maskOut' = maskSvg(maskIn)
    /\ UNCHANGED <<pureVars, sizeVars, dirVars, cwd, fs, opVars, reqVars, maskIn, toolVars, concVars>>

MaskNext == BuildMask

SpecMask == MaskInit /\ [][MaskNext]_vars

(***************************************************************************)
(* One tool call, from the request to the response.                        *)
(***************************************************************************)
\* the names a client may call: the tools and a name that is no tool
CalledNames == ToolNames \cup {"create_variation"}

\* the mask_shapes of a call: absent or empty, or one entry
ToolShapeInputs == {<<>>} \cup {<<e>> : e \in ShapeEntries}

\* the arguments that do not matter to a tool keep their default
ToolCalls ==
    {DefaultCall(name, {}) : name \in CalledNames \ ToolNames}
    \cup UNION {{DefaultCall(name, g) : g \in (SUBSET Required[name]) \ {Required[name]}} :
                   name \in ToolNames}
    \cup {c \in [name : ToolNames \ {"validate_api_key"},
                 given : SUBSET {"prompt", "imagePath", "imagePaths"},
                 pathsTyped : BOOLEAN,
                 image : {"missing", "unreadable", "ok"},
                 mask : {"none", "missing", "exists"},
                 mask_shapes : ToolShapeInputs,
                 meta : BOOLEAN] :
             /\ c.given = Required[c.name]
             /\ c.name = "generate_image" => c.pathsTyped /\ c.image = "ok"
             /\ c.name # "edit_image" => c.mask = "none" /\ c.mask_shapes = <<>>
             /\ ~c.pathsTyped => c.image = "missing" /\ c.mask = "none" /\ c.mask_shapes = <<>>}
    \cup {[DefaultCall("validate_api_key", {}) EXCEPT !.meta = m] : m \in BOOLEAN}

\* the filesystems of a tool call: cwd is the root, writable or not, and
\* nothing else exists
ToolFsStates == {f \in OpFsStates : \A q \in AllPaths \ {Root} : f.kind[q] = "none"}

ToolInit ==
    /\ SizeIdle
    /\ PureIdle
    /\ ReqIdle
    /\ MaskIdle
    /\ ConcIdle
    /\ OpIdle
    /\ dirIn = AbsentDir
    /\ dirOut = NoDir
    /\ fs \in ToolFsStates
    /\ cwd = AbsPath(Root)
    /\ call \in ToolCalls
    /\ tpc = "received"
    /\ tempMask = NoTempMask
    /\ pending = NoPending
    /\ mcp = <<>>
    /\ serviceCalls = 0

\* the request handler returns r to the client
Respond(r) == mcp' = Append(mcp, r) /\ tpc' = "responded"

\* index.ts, after the switch: if (request.params._meta) return
\* { ...response, _meta }; return response
ReturnResponse(r) == Respond([r EXCEPT !.meta = call.meta])

\* a request handler without the catch: the fault ends the call unanswered
Uncaught == tpc' = "crashed" /\ UNCHANGED mcp

\* index.ts, catch (error): the text is error.message
Caught == Respond(Text("", "fault"))

\* a handler that does not test mask against mask_shapes
NeverExclusive(c) == FALSE

\* args.mask && args.mask_shapes && args.mask_shapes.length > 0
MutuallyExclusive(c) == c.mask # "none" /\ c.mask_shapes # <<>>

\* await dalleService.<operation>(..., { ..., n: args.n, saveDirPath:
\* args.saveDirPath }): the call begins
CallService(inputsExist) ==
    /\ op' = OperationOf[call.name]
    /\ args' = [n |-> 0, saveDirPath |-> AbsentDir, inputsExist |-> inputsExist]
    /\ pc' = "start"
    /\ serviceCalls' = serviceCalls + 1
    /\ tpc' = "service"
    /\ UNCHANGED <<saveDir, response, idx, imagePaths, result, requests>>

\* index.ts: tools.find, the test of inputSchema.required, the switch
Dispatch ==
    /\ tpc = "received"
    /\ IF call.name \notin ToolNames
       THEN Respond(Text("Unknown tool: ", "unknown_tool"))
       ELSE IF Required[call.name] \ call.given # {}
            THEN Respond(Text("Missing required arguments: ", "missing_arguments"))
            ELSE tpc' = "handler" /\ UNCHANGED mcp
    /\ UNCHANGED <<pureVars, sizeVars, dirVars, cwd, fs, opVars, reqVars, maskVars, concVars,
                   call, tempMask, pending, serviceCalls>>

\* validate_api_key: dalleService.validateApiKey() resolves to true or false
ValidateApiKeyHandler ==
    /\ tpc = "handler"
    /\ call.name = "validate_api_key"
    /\ \/ ReturnResponse(Text("API key is valid.", "valid"))
       \/ ReturnResponse(Text("API key is invalid or there was an error validating it.", "invalid"))
    /\ UNCHANGED <<pureVars, sizeVars, dirVars, cwd, fs, opVars, reqVars, maskVars, concVars,
                   call, tempMask, pending, serviceCalls>>

\* generate_image: the handler calls dalleService.generateImage
GenerateImageHandler ==
    /\ tpc = "handler"
    /\ call.name = "generate_image"
    /\ CallService(TRUE)
    /\ UNCHANGED <<pureVars, sizeVars, dirVars, cwd, fs, reqVars, maskVars, concVars,
                   call, tempMask, pending, mcp>>

\* image_to_image and multi_image_edit: path.isAbsolute(args.imagePath) and
\* args.imagePaths.map throw a TypeError on a value of another type (there
\* is no try in these handlers); else the service is called
PathsHandler(name) ==
    /\ tpc = "handler"
    /\ call.name = name
    /\ IF ~call.pathsTyped
       THEN /\ Caught
            /\ UNCHANGED <<opVars, serviceCalls>>
       ELSE /\ CallService(call.image # "missing")
            /\ UNCHANGED mcp
    /\ UNCHANGED <<pureVars, sizeVars, dirVars, cwd, fs, reqVars, maskVars, concVars,
                   call, tempMask, pending>>

ImageToImageHandler == PathsHandler("image_to_image")

MultiImageEditHandler == PathsHandler("multi_image_edit")

\* edit_image up to the call of the service when no mask is to be made:
\* path.isAbsolute(args.imagePath), the test of mask against mask_shapes,
\* the branch on mask_shapes and mask
EditImageHandler ==
    /\ tpc = "handler"
    /\ call.name = "edit_image"
    /\ IF ~call.pathsTyped
       THEN /\ Caught
            /\ UNCHANGED <<opVars, serviceCalls>>
       ELSE IF MutuallyExclusive(call)
       THEN /\ Respond(Text("Error: 'mask' (image path) and 'mask_shapes' (geometric shapes) are mutually exclusive.", "mutually_exclusive"))
            /\ UNCHANGED <<opVars, serviceCalls>>
       ELSE IF call.mask_shapes # <<>>
       THEN /\ tpc' = "rasterize"
            /\ UNCHANGED <<opVars, serviceCalls, mcp>>
       ELSE /\ CallService(call.image # "missing" /\ call.mask # "missing")
            /\ UNCHANGED mcp
    /\ UNCHANGED <<pureVars, sizeVars, dirVars, cwd, fs, reqVars, maskVars, concVars,
                   call, tempMask, pending>>

\* the try block of edit_image is left by a throw
Throw == pending' = [kind |-> "throw", response |-> Text("", "fault")] /\ tpc' = "finally"

\* edit_image with mask_shapes: sharp(imagePathAbs).metadata() (throws when
\* the file is missing or is no image), the SVG of the shapes, tempMaskPath,
\* sharp(svgBuffer).png().toFile(tempMaskPath) (may fail), then the call of
\* the service with the mask
RasterizeMask ==
    /\ tpc = "rasterize"
    /\ LET m == maskSvg(call.mask_shapes)
       IN  IF call.image # "ok" \/ m.thrown
           THEN /\ Throw
                /\ UNCHANGED <<opVars, serviceCalls, tempMask>>
           ELSE \/ /\ tempMask' = [path |-> TRUE, exists |-> FALSE, svg |-> <<>>]
                   /\ Throw
                   /\ UNCHANGED <<opVars, serviceCalls>>
                \/ /\ tempMask' = [path |-> TRUE, exists |-> TRUE, svg |-> m.svg]
                   /\ CallService(TRUE)
                   /\ UNCHANGED pending
    /\ UNCHANGED <<pureVars, sizeVars, dirVars, cwd, fs, reqVars, maskVars, concVars, call, mcp>>

\* the text a handler makes of the result of the service
ResultText(name, r) ==
    IF ~r.success
    THEN Text(ErrorPrefix[name], "failure")
    ELSE Text("Successfully ", "success")

\* after await dalleService.<operation>(...): the handler returns the text
\* of the result; in edit_image the return leaves the try block
HandleResult ==
    /\ tpc = "service"
    /\ pc = "done"
    /\ IF call.name = "edit_image"
       THEN /\ pending' = [kind |-> "return", response |-> ResultText(call.name, result)]
            /\ tpc' = "finally"
            /\ UNCHANGED mcp
       ELSE /\ ReturnResponse(ResultText(call.name, result))
            /\ UNCHANGED pending
    /\ UNCHANGED <<pureVars, sizeVars, dirVars, cwd, fs, opVars, reqVars, maskVars, concVars,
                   call, tempMask, serviceCalls>>

FinallyWithoutUnlink ==
    /\ tpc = "finally"
    /\ IF pending.kind = "return"
       THEN ReturnResponse(pending.response)
       ELSE Caught
    /\ UNCHANGED <<pureVars, sizeVars, dirVars, cwd, fs, opVars, reqVars, maskVars, concVars,
                   call, pending, serviceCalls, tempMask>>

\* edit_image, finally: if (tempMaskPath) fs.unlink(tempMaskPath), a failure
\* of unlink being caught; then the return or the throw that left the try
\* block goes on
Finally ==
    /\ tpc = "finally"
    /\ tempMask' = IF tempMask.path THEN [tempMask EXCEPT !.exists = FALSE] ELSE tempMask
    /\ IF pending.kind = "return"
       THEN ReturnResponse(pending.response)
       ELSE Caught
    /\ UNCHANGED <<pureVars, sizeVars, dirVars, cwd, fs, opVars, reqVars, maskVars, concVars,
                   call, pending, serviceCalls>>

ToolNext ==
    \/ Dispatch
    \/ ValidateApiKeyHandler
    \/ GenerateImageHandler
    \/ ImageToImageHandler
    \/ MultiImageEditHandler
    \/ EditImageHandler
    \/ RasterizeMask
    \/ CheckSaveDir
    \/ CheckInputs
    \/ SendRequest
    \/ CheckData
    \/ SaveItem
    \/ ReturnSuccess
    \/ HandleResult
    \/ Finally

SpecTool == ToolInit /\ [][ToolNext]_vars

\* every awaited step completes or fails, and the event loop runs what is
\* ready
SpecToolFair == SpecTool /\ WF_vars(ToolNext)

(***************************************************************************)
(* Two concurrent calls of generate_image or of edit_image with            *)
(* mask_shapes, with default file names and the same save directory.  The  *)
(* inputs are fine and the provider answers every request with one image,  *)
(* so that a call that runs alone succeeds.                                *)
(***************************************************************************)
ConcInit ==
    /\ SizeIdle
    /\ PureIdle
    /\ DirIdle
    /\ OpIdle
    /\ ReqIdle
    /\ MaskIdle
    /\ ToolIdle
    /\ now = 0
    /\ procs \in [CallIds -> {NewCall(t) : t \in {"generate_image", "edit_image"}}]
    /\ disk = NoDisk

ConcUnchanged == UNCHANGED <<pureVars, sizeVars, dirVars, cwd, fs, opVars, reqVars, maskVars, toolVars>>

\* a millisecond passes
Tick ==
    /\ now < MaxClock
    /\ now' = now + 1
    /\ UNCHANGED <<procs, disk>>
    /\ ConcUnchanged

\* edit_image: tempMaskPath = path.join(os.tmpdir(), `mask-${Date.now()}.png`);
\* await sharp(svgBuffer).png().toFile(tempMaskPath)
WriteTempMask(p) ==
    /\ procs[p].tool = "edit_image"
    /\ procs[p].at = "handler"
    /\ procs' = [procs EXCEPT ![p].tempMaskPath = now, ![p].at = "call"]
    /\ disk' = [disk EXCEPT !.tmp = Written(@, now, p)]
    /\ UNCHANGED now
    /\ ConcUnchanged

\* the service begins: const fileName = options.fileName ||
\* `gpt-image-${Date.now()}` (`gpt-image-edit-${Date.now()}` in editImage)
BeginOperation(p) ==
    /\ \/ procs[p].tool = "generate_image" /\ procs[p].at = "handler"
       \/ procs[p].tool = "edit_image" /\ procs[p].at = "call"
    /\ procs' = [procs EXCEPT ![p].fileName = now,
                              ![p].at = IF procs[p].tool = "edit_image"
                                        THEN "inputs" ELSE "request"]
    /\ UNCHANGED <<now, disk>>
    /\ ConcUnchanged

\* editImage: if (options.mask && !await fs.pathExists(options.mask)) return
\* { success: false, error: `Mask file not found: ...` }
CheckMaskExists(p) ==
    /\ procs[p].at = "inputs"
    /\ IF Named(disk.tmp, procs[p].tempMaskPath) = {}
       THEN procs' = [procs EXCEPT ![p].outcome = "failure", ![p].at = "finally"]
       ELSE procs' = [procs EXCEPT ![p].at = "request"]
    /\ UNCHANGED <<now, disk>>
    /\ ConcUnchanged

\* the request: editImage reads the mask with fs.readFile(options.mask) (a
\* missing file throws and the catch returns the failure) and posts the form
PostRequest(p) ==
    /\ procs[p].at = "request"
    /\ IF procs[p].tool = "edit_image"
       THEN LET mask == Named(disk.tmp, procs[p].tempMaskPath)
            IN  IF mask = {}
                THEN procs' = [procs EXCEPT ![p].outcome = "failure", ![p].at = "finally"]
                ELSE \E f \in mask :
                        procs' = [procs EXCEPT ![p].maskSent = f.by, ![p].at = "save"]
       ELSE procs' = [procs EXCEPT ![p].at = "save"]
    /\ UNCHANGED <<now, disk>>
    /\ ConcUnchanged

\* the item of the response is written to path.join(saveDir,
\* `${fileName}.png`), its path is pushed and the result is returned
SaveOutput(p) ==
    /\ procs[p].at = "save"
    /\ disk' = [disk EXCEPT !.out =
                   Written(@, <<FilePrefix[procs[p].tool], procs[p].fileName>>, p)]
    /\ procs' = [procs EXCEPT ![p].outcome = "success",
                              ![p].at = IF procs[p].tool = "edit_image"
                                        THEN "finally" ELSE "done"]
    /\ UNCHANGED now
    /\ ConcUnchanged

\* edit_image, finally: await fs.unlink(tempMaskPath)
UnlinkTempMask(p) ==
    /\ procs[p].at = "finally"
    /\ disk' = [disk EXCEPT !.tmp = @ \ Named(@, procs[p].tempMaskPath)]
    /\ procs' = [procs EXCEPT ![p].at = "done"]
    /\ UNCHANGED now
    /\ ConcUnchanged

ConcNext ==
    \/ Tick
    \/ \E p \in CallIds : WriteTempMask(p)
    \/ \E p \in CallIds : BeginOperation(p)
    \/ \E p \in CallIds : CheckMaskExists(p)
    \/ \E p \in CallIds : PostRequest(p)
    \/ \E p \in CallIds : SaveOutput(p)
    \/ \E p \in CallIds : UnlinkTempMask(p)

SpecConc == ConcInit /\ [][ConcNext]_vars

(***************************************************************************)
(* The path written for one item of one call.                              *)
(***************************************************************************)
NameInit ==
    /\ SizeIdle
    /\ DirIdle
    /\ OpIdle
    /\ ReqIdle
    /\ MaskIdle
    /\ ToolIdle
    /\ ConcIdle
    /\ UsageIdle
    /\ nameIn \in NameInputs
    /\ nameOut = NoName

PureUnchanged ==
    UNCHANGED <<sizeVars, dirVars, cwd, fs, opVars, reqVars, maskVars, toolVars, concVars>>

\* one iteration of the loop over the items: the path of item nameIn.i
SaveImage ==
    /\ ~nameOut.built
    /\ nameIn.op \in Ops
    /\ nameOut' = imagePath(nameIn, cwd)
    /\ UNCHANGED <<nameIn, usageVars>>
    /\ PureUnchanged

SpecName == NameInit /\ [][SaveImage]_vars

(***************************************************************************)
(* The usage field of the successful result of one call.                   *)
(***************************************************************************)
UsageInit ==
    /\ SizeIdle
    /\ DirIdle
    /\ OpIdle
    /\ ReqIdle
    /\ MaskIdle
    /\ ToolIdle
    /\ ConcIdle
    /\ NameIdle
    /\ usageIn \in [op : Ops, usage : UsageObjects]
    /\ usageOut = NoUsageResult

ReturnUsage(o, usage) ==
    /\ ~usageOut.returned
    /\ usageIn.op = o
    /\ usageOut' = [returned |-> TRUE, usage |-> usage]
    /\ UNCHANGED <<usageIn, nameVars>>
    /\ PureUnchanged

GenerateImageUsage == ReturnUsage("generateImage", usageOf(usageIn.usage))

EditImageUsage == ReturnUsage("editImage", usageOf(usageIn.usage))

ImageToImageUsage == ReturnUsage("imageToImage", withoutUsage(usageIn.usage))

EditMultipleImagesUsage == ReturnUsage("editMultipleImages", usageOf(usageIn.usage))

UsageNext ==
    \/ GenerateImageUsage
    \/ EditImageUsage
    \/ ImageToImageUsage
    \/ EditMultipleImagesUsage

SpecUsage == UsageInit /\ [][UsageNext]_vars

(***************************************************************************)
(* Properties of normalizeSize (checked under SpecSize)                    *)
(***************************************************************************)
SizeReturned == sizeOut # NoSize

IsSupported(s) == s \in Range(SUPPORTED_SIZES)

SQUARE == SUPPORTED_SIZES[1]

\* C1: a square request WxW (W > 0) that is not itself a supported size is
\* normalized to 1024x1024, whatever the area difference is.
C1_SquareRequestGivesSquare ==
    \A W \in Dims \ {0} :
        (/\ SizeReturned
         /\ sizeIn.present
         /\ sizeIn.str = RequestOf(W, "x", W)
         /\ ~IsSupported(sizeIn.str))
        => sizeOut = SQUARE

\* C2: for a request WxH (W, H > 0) that is not a supported size, the size
\* returned has the smallest aspect-ratio difference among the supported
\* sizes, and the smallest area difference among those of that ratio
\* difference.
C2_RatioDominates ==
    \A W \in Dims \ {0}, H \in Dims \ {0} :
        (/\ SizeReturned
         /\ sizeIn.present
         /\ sizeIn.str = RequestOf(W, "x", H)
         /\ ~IsSupported(sizeIn.str))
        => /\ IsSupported(sizeOut)
           /\ \A c \in 1..Len(SUPPORTED_SIZES) :
                 LET ss == SUPPORTED_SIZES[c] IN
                 \/ ratioDifference(W, H, sizeOut) < ratioDifference(W, H, ss)
                 \/ /\ ratioDifference(W, H, sizeOut) = ratioDifference(W, H, ss)
                    /\ areaDifference(W, H, sizeOut) <= areaDifference(W, H, ss)

\* the whole string is <positive integer> x|X <positive integer>
IsWholeSizeForm(s) ==
    \E j \in 2..(Len(s) - 1) :
        /\ s[j] \in {"x", "X"}
        /\ AllDigits(s, 1, j - 1)
        /\ AllDigits(s, j + 1, Len(s))
        /\ parseInt(SubSeq(s, 1, j - 1)) > 0
        /\ parseInt(SubSeq(s, j + 1, Len(s))) > 0

\* C3: a string that is neither absent, nor "auto", nor entirely of the form
\* <positive integer>x<positive integer> is normalized to "auto".
C3_NonSizeStringGivesAuto ==
    (/\ SizeReturned
     /\ sizeIn.present
     /\ sizeIn.str # AUTO
     /\ ~IsWholeSizeForm(sizeIn.str))
    => sizeOut = AUTO

\* C4: normalizeSize is total and returns one of "auto", "1024x1024",
\* "1024x1536", "1536x1024" for every input, zero dimensions included.
C4_ResultIsAutoOrSupported ==
    SizeReturned => (sizeOut = AUTO \/ IsSupported(sizeOut))

\* C4 witness: a request with a zero dimension has been normalized
C4_ZeroDimensionNormalized ==
    /\ SizeReturned
    /\ sizeIn.present
    /\ sizeIn.str \in {RequestOf(0, "x", 0), RequestOf(DimStep, "x", 0)}
    /\ sizeOut = SQUARE

(***************************************************************************)
(* Properties of resolveSaveDir (checked under SpecDir)                    *)
(***************************************************************************)
DirReturned == dirOut # NoDir

\* the deepest path on the way to p that exists
NearestExisting(f, p) ==
    SubSeq(p, 1, SetMax({k \in 0..Len(p) : f.kind[SubSeq(p, 1, k)] # "none"}))

\* p is a writable directory, or it can be created: nothing exists at p and
\* the deepest existing path above it is a writable directory
Usable(f, p) ==
    LET q == NearestExisting(f, p)
    IN  f.kind[q] = "dir" /\ q \in f.writable

\* a call never changes whether a directory is usable
UsableIsStable ==
    [][\A p \in AllPaths : Usable(fs, p) <=> Usable(fs', p)]_vars

\* C5: the path resolveSaveDir returns is absolute and is an existing,
\* writable directory when it returns, the fallback to cwd included.
C5_ReturnedDirIsWritable ==
    DirReturned =>
        /\ dirOut.abs
        /\ IsDir(fs, Canon(dirOut))
        /\ Canon(dirOut) \in fs.writable

\* C6: resolveSaveDir(d) is cwd when d is absent; d unchanged when d is
\* absolute and usable; d resolved against cwd when d is relative and usable;
\* cwd when the directory of d cannot be created or is not writable.
C6_ResolveSaveDirResult ==
    DirReturned =>
        LET against == Normalize(cwd.segs \o dirIn.segs) IN
        /\ ~dirIn.present => dirOut = cwd
        /\ (dirIn.present /\ dirIn.abs /\ Usable(fs, Normalize(dirIn.segs)))
              => dirOut = [abs |-> TRUE, segs |-> dirIn.segs]
        /\ (dirIn.present /\ ~dirIn.abs /\ Usable(fs, against))
              => dirOut = [abs |-> TRUE, segs |-> against]
        /\ (dirIn.present /\ dirIn.abs /\ ~Usable(fs, Normalize(dirIn.segs)))
              => dirOut = cwd
        /\ (dirIn.present /\ ~dirIn.abs /\ ~Usable(fs, against))
              => dirOut = cwd

\* C6 witness: a relative argument with a ".." segment was resolved against
\* cwd to another directory, which was returned
C6_RelativeResolved ==
    /\ DirReturned
    /\ dirIn.present
    /\ ~dirIn.abs
    /\ ".." \in Range(dirIn.segs)
    /\ dirOut # cwd
    /\ dirOut = [abs |-> TRUE, segs |-> Normalize(cwd.segs \o dirIn.segs)]

(***************************************************************************)
(* Properties of the image operations (checked under Spec)                 *)
(***************************************************************************)
Done == pc = "done" /\ result.returned

\* the directory the saveDirPath argument of the call asks for
RequestedDir == Canon(resolvedPath(args.saveDirPath, cwd))

\* C7: when the saveDirPath of the caller cannot be created or is not
\* writeable, the operation returns an error, sends no request to the provider
\* and saves no image anywhere.
C7_UnusableSaveDirIsAnError ==
    (Done /\ args.saveDirPath.present /\ ~Usable(fs, RequestedDir))
    => /\ ~result.success
       /\ requests = 0
       /\ fs.files = {}

\* C8: a successful result carries exactly n saved paths (1 when n is
\* absent), whatever the number of items of the response; a failed result
\* carries none.
C8_PathCountIsRequestedCount ==
    Done =>
        IF result.success
        THEN result.hasPaths /\ Len(result.imagePaths) = CountOf(args)
        ELSE ~result.hasPaths /\ result.imagePaths = <<>>

\* C9: when the reconciliation of a response fails, the result reports no
\* path and no image file of the call remains on disk.
C9_FailedBatchLeavesNoFile ==
    (Done /\ response.received /\ ~result.success)
    => /\ ~result.hasPaths
       /\ result.imagePaths = <<>>
       /\ fs.files = {}

\* C10: a response whose data array is missing or empty yields a failed
\* result with no saved path, for each of the four operations.
C10_MissingOrEmptyDataFails ==
    (Done /\ response.received /\ (~response.hasData \/ response.data = <<>>))
    => /\ ~result.success
       /\ ~result.hasPaths
       /\ result.imagePaths = <<>>

\* the items of a response that the spec's reconciler accepts: a url that can
\* be fetched, b64_json or image
Reconcilable(shape) == shape \in {"url", "b64_json", "image"}

\* C11: for each of the four operations a response whose items are of the
\* shapes {url}, {b64_json} or {image}, in any mix, is reconciled
\* successfully when every write succeeds: one saved file per item.
C11_EveryShapeIsReconciled ==
    (/\ Done
     /\ response.received
     /\ response.hasData
     /\ response.data # <<>>
     /\ \A k \in 1..Len(response.data) : Reconcilable(response.data[k])
     /\ result.error # "writeFile failed")
    => /\ result.success
       /\ Len(result.imagePaths) = Len(response.data)

\* the file at a path of the result, if any
FilesAt(path) == {g \in fs.files : g.dir = path.dir /\ g.suffix = path.suffix}

\* the bytes of a file are those of the item last written to it
IsEmptyFile(g) == DecodesToNothing(response.data[g.item + 1])

\* C12: every path of a successful result is absolute and names a file that
\* exists and is not empty when the result is returned.
C12_SavedPathsAreNonEmptyFiles ==
    (Done /\ result.success)
    => \A k \in 1..Len(result.imagePaths) :
          /\ saveDir.abs
          /\ result.imagePaths[k].dir = Canon(saveDir)
          /\ FilesAt(result.imagePaths[k]) # {}
          /\ \A g \in FilesAt(result.imagePaths[k]) : ~IsEmptyFile(g)

(***************************************************************************)
(* Properties of the provider request (checked under SpecReq)              *)
(***************************************************************************)
\* C13: quality, background, moderation and output_format are in the request
\* of an operation only when the caller's value is in the allowed set of the
\* option, and then with the caller's value; a value outside the set is
\* never forwarded.
C13_OnlyAllowedValuesForwarded ==
    reqOut.built =>
        \A name \in OptionNames :
            reqOut[name] # Undefined
            => reqIn[name] \in Allowed[name] /\ reqOut[name] = reqIn[name]

\* the caller gave output_compression as an integer of [0, 100]
IsCompressionLevel(c) ==
    c.given /\ c.whole /\ c.val \in MinCompression..MaxCompression

\* C14: output_compression is in the request if and only if output_format is
\* jpeg or webp and the caller gave an integer of [0, 100]; its value is then
\* the caller's, 0 included.
C14_CompressionIffFormatAndLevel ==
    reqOut.built =>
        /\ reqOut.output_compression.given
              <=> (/\ reqIn.output_format \in Compressible
                   /\ IsCompressionLevel(reqIn.output_compression))
        /\ reqOut.output_compression.given
              => reqOut.output_compression = reqIn.output_compression

(***************************************************************************)
(* Properties of the mask of edit_image (checked under SpecMask)           *)
(***************************************************************************)
\* an entry that is an object with details, a known type and the fields of
\* that type
WellFormed(shape) ==
    /\ shape.value = "object"
    /\ shape.details
    /\ shape.type \in ShapeTypes
    /\ shape.fieldsOk

\* C16: malformed entries of mask_shapes (fields missing or of a wrong type,
\* details missing, unknown type, entry that is not an object) are skipped:
\* the mask is the black background followed by one element per well-formed
\* entry in input order, the mask of the list without the malformed entries,
\* and building it does not fail.
C16_MalformedShapesAreSkipped ==
    maskOut.done =>
        LET kept == SelectSeq(maskIn, WellFormed)
        IN  /\ ~maskOut.thrown
            /\ maskOut.svg = <<"black">> \o [k \in 1..Len(kept) |-> ElementOf[kept[k].type]]
            /\ maskOut = maskSvg(kept)

(***************************************************************************)
(* Properties of a tool call (checked under SpecTool and SpecToolFair)     *)
(***************************************************************************)
Responded == tpc = "responded"

\* the text item of the response of the call
ResponseItem == mcp[1].content[1]

\* the call is edit_image with a mask path and a non-empty mask_shapes
BothMasks ==
    /\ call.name = "edit_image"
    /\ call.mask # "none"
    /\ Len(call.mask_shapes) > 0

\* C15: edit_image called with both mask and a non-empty mask_shapes returns
\* the error about the two arguments, and along the call no request is sent
\* to the provider, no mask is rasterized and no file is written.
C15_MaskAndShapesRejected ==
    BothMasks =>
        /\ requests = 0
        /\ serviceCalls = 0
        /\ tempMask = NoTempMask
        /\ fs.files = {}
        /\ Responded =>
              /\ Len(mcp) = 1
              /\ ResponseItem.about = "mutually_exclusive"
              /\ ResponseItem.type = "text"

\* C15 witness: such a call, with an existing mask file and a well-formed
\* shape, has been answered
C15_BothGivenAnswered ==
    /\ BothMasks
    /\ call.mask = "exists"
    /\ call.image = "ok"
    /\ \E k \in 1..Len(call.mask_shapes) : WellFormed(call.mask_shapes[k])
    /\ Responded
    /\ ResponseItem.about = "mutually_exclusive"

\* a required argument of the tool called is not in the arguments
ArgumentMissing ==
    /\ call.name \in ToolNames
    /\ \E a \in Required[call.name] : a \notin call.given

\* the arguments are complete and an input image or the mask file they name
\* does not exist
InputFileMissing ==
    /\ call.name \in {"edit_image", "image_to_image", "multi_image_edit"}
    /\ call.given = Required[call.name]
    /\ call.pathsTyped
    /\ call.image = "missing" \/ call.mask = "missing"

\* what the text of an error response is about
ErrorAbouts == {"missing_arguments", "mutually_exclusive", "failure", "fault"}

\* C17: when a required argument is missing, or an input image or mask file
\* named by the arguments does not exist, no request is sent to the provider
\* at any point of the call, the operation is called at most once, and the
\* response of the call is one text error.
C17_MissingInputIsAnErrorWithoutRequest ==
    (ArgumentMissing \/ InputFileMissing) =>
        /\ requests = 0
        /\ serviceCalls <= 1
        /\ Len(mcp) <= 1
        /\ Responded =>
              /\ Len(mcp) = 1
              /\ Len(mcp[1].content) = 1
              /\ ResponseItem.type = "text"
              /\ ResponseItem.about \in ErrorAbouts

\* C17 witness: edit_image with a mask path whose file does not exist was
\* answered with the failure of the service
C17_MissingMaskAnswered ==
    /\ call.name = "edit_image"
    /\ call.mask = "missing"
    /\ call.image = "ok"
    /\ InputFileMissing
    /\ Responded
    /\ serviceCalls = 1
    /\ ResponseItem.about = "failure"
    /\ ResponseItem.prefix = "Error editing image: "

\* the call reached a tool handler, which is one of the image operations
InImageHandler ==
    /\ call.name \in ToolNames \ {"validate_api_key"}
    /\ call.given = Required[call.name]

\* C18: no failure leaves a handler of an image operation as a fault: when a
\* call of generate_image, edit_image (mask, mask_shapes or neither),
\* image_to_image or multi_image_edit fails, the response is the text of the
\* handler, beginning with the error prefix of the operation.
C18_FailuresCarryTheOperationPrefix ==
    (Responded /\ InImageHandler /\ ~BothMasks /\ ResponseItem.about # "success")
    => /\ ResponseItem.about = "failure"
       /\ ResponseItem.prefix = ErrorPrefix[call.name]

\* a response is a content list of one text item
WellFormedResponse(r) ==
    /\ Len(r.content) = 1
    /\ r.content[1].type = "text"

\* C19: every tool call, of a known or unknown name, with complete or
\* incomplete arguments, eventually has exactly one response, which is
\* well-formed, when every step of the call completes or fails.
C19_EveryCallIsAnsweredOnce ==
    /\ <>[](Responded /\ Len(mcp) = 1 /\ WellFormedResponse(mcp[1]))
    /\ [](Len(mcp) <= 1)

\* C19 witness: a call of a name that is no tool has been answered
C19_UnknownToolAnswered ==
    /\ Responded
    /\ call.name \notin ToolNames
    /\ Len(mcp) = 1
    /\ ResponseItem.about = "unknown_tool"

(***************************************************************************)
(* Properties of concurrent calls (checked under SpecConc)                 *)
(***************************************************************************)
\* the file a finished call reports
ReportedFile(p) == Named(disk.out, <<FilePrefix[procs[p].tool], procs[p].fileName>>)

\* C20: two concurrent calls are independent in every interleaving: a call
\* sends the mask it rasterized itself, ends as it ends alone (with success)
\* and the file it reports holds its own image; no call reads, replaces or
\* removes a file of the other.
C20_ConcurrentCallsAreIndependent ==
    \A p \in CallIds :
        /\ procs[p].maskSent \in {Nobody, p}
        /\ procs[p].outcome # "failure"
        /\ procs[p].at = "done" =>
              /\ procs[p].outcome = "success"
              /\ ReportedFile(p) # {}
              /\ \A f \in ReportedFile(p) : f.by = p

(***************************************************************************)
(* Further properties of the image operations (checked under Spec)         *)
(***************************************************************************)
\* the provider rejected the request of the call (axios.post threw)
ProviderRejected == requests = 1 /\ ~response.received

\* C21: every result of an image operation is either success true with
\* imagePaths defined and error undefined, or success false with error
\* defined and imagePaths undefined; a rejection by the provider ends in the
\* second shape, as a returned result.
C21_ResultHasOneOfTwoShapes ==
    /\ Done =>
          \/ result.success /\ result.hasPaths /\ ~result.hasError
          \/ ~result.success /\ result.hasError /\ ~result.hasPaths
    /\ (ProviderRejected /\ pc # "request") =>
          Done /\ ~result.success /\ result.hasError /\ ~result.hasPaths

\* C21 witness: a call whose request the provider rejected has returned
C21_RejectionReturned ==
    /\ Done
    /\ ProviderRejected
    /\ result.error = "GPT-Image API Error"

(***************************************************************************)
(* Further properties of normalizeSize (checked under SpecSize)            *)
(***************************************************************************)
\* the request is a string in which WxH is found and that is no supported
\* size
ParsedRequest ==
    /\ sizeIn.present
    /\ sizeIn.str # AUTO
    /\ ~IsSupported(sizeIn.str)
    /\ SizeMatch(sizeIn.str) # <<>>

\* candidate c has the least score for WxH and is the first with that score
FirstMinimizer(c, W, H) ==
    LET score(d) == combinedScore(W, H, SUPPORTED_SIZES[d])
    IN  /\ \A d \in 1..Len(SUPPORTED_SIZES) : ~ScoreLess(score(d), score(c), H)
        /\ \A d \in 1..(c - 1) : ScoreLess(score(c), score(d), H)

SaveDirFailure ==
    result.error = "Save directory is not writeable or could not be created"

\* the fallback directory, cwd, cannot be used
FallbackUnusable == ~Usable(fs, Canon(cwd))

\* the directory asked for cannot be used, or none is asked for
NeedsFallback ==
    ~args.saveDirPath.present \/ ~Usable(fs, RequestedDir)

Phase(at) ==
    CASE at = "start" -> 0
      [] at = "inputs" -> 1
      [] at = "request" -> 2
      [] at = "response" -> 3
      [] at = "items" -> 4
      [] OTHER -> 5

\* C24: a call sends at most one request to the provider, and sends it only
\* from the request phase with none sent before (no retry after a failure);
\* every step moves the call forward or stays in the loop over the items; the
\* result is set once, by the step that ends the call, and no step follows it.
C24_OneRequestForwardOnly ==
    [][/\ pc # "done"
       /\ Phase(pc') >= Phase(pc)
       /\ requests' <= 1
       /\ requests' # requests => (pc = "request" /\ requests = 0 /\ requests' = 1)
       /\ result' # result => (pc' = "done" /\ ~result.returned /\ result'.returned)
       /\ pc' = "done" => result'.returned]_vars

\* C24 witness: a call has ended with a failure after its one request
C24_FailedAfterOneRequest ==
    /\ Done
    /\ requests = 1
    /\ response.received
    /\ ~result.success

\* C25: the items of a response are processed in the order of the array: when
\* the loop stands at item i the files written are those of the items before
\* i, one path has been pushed for each of them, and the k-th path of the
\* list names the file that holds the k-th item.
C25_ItemsSavedInResponseOrder ==
    (response.received /\ pc \in {"items", "done"}) =>
        /\ Len(imagePaths) = idx
        /\ \A g \in fs.files : g.item < idx
        /\ \A k \in 1..Len(imagePaths) :
              \E g \in FilesAt(imagePaths[k]) : g.item = k - 1

\* C29: the paths of one successful result are pairwise distinct, whatever
\* the requested count and whatever the number of items of the response.
C29_PathsOfOneResultAreDistinct ==
    (Done /\ result.success) =>
        \A j, k \in 1..Len(result.imagePaths) :
            j # k => result.imagePaths[j] # result.imagePaths[k]

\* the base of the file name the claims speak of: the given fileName, or
\* the default name of the operation
BaseOf(o) == IF o.fileName.given /\ o.fileName.text # <<>> THEN o.fileName.text
             ELSE DefaultPrefix[o.op] \o decimal(o.now)

\* the characters of a name after its first len characters
After(name, len) == SubSeq(name, len + 1, Len(name))

\* name is first followed by rest
StartsWith(name, first) ==
    Len(name) >= Len(first) /\ SubSeq(name, 1, Len(first)) = first

\* C26: the file of item i is <base>.<format> when the count is 1 or absent
\* and <base>-<i+1>.<format> when the count is above 1, the format being the
\* given output_format or png; it lies directly in the resolved save
\* directory and its path is absolute.
C26_FileNameFollowsCountAndIndex ==
    nameOut.built =>
        LET base == BaseOf(nameIn)
            ext == <<".">> \o CharsOf[OrDefault(nameIn.output_format, "png")]
            middle == SubSeq(nameOut.file, Len(base) + 1, Len(nameOut.file) - Len(ext))
        IN  /\ nameOut.abs
            /\ nameOut.dir = Canon(nameIn.saveDir)
            /\ StartsWith(nameOut.file, base)
            /\ Len(nameOut.file) >= Len(base) + Len(ext)
            /\ After(nameOut.file, Len(nameOut.file) - Len(ext)) = ext
            /\ IF nameIn.n <= 1 THEN middle = <<>>
               ELSE /\ Len(middle) >= 2
                    /\ middle[1] = "-"
                    /\ AllDigits(middle, 2, Len(middle))
                    /\ parseInt(After(middle, 1)) = nameIn.i + 1

C26_SecondOfSeveralNamed ==
    nameOut.built /\ nameIn.n > 1 /\ nameIn.i = 1 /\ nameIn.fileName.given

\* the characters of a file name after its last dot
Extension(file) ==
    LET dots == {p \in 1..Len(file) : file[p] = "."}
    IN  IF dots = {} THEN <<>>
        ELSE After(file, CHOOSE p \in dots : \A q \in dots : q <= p)

\* C30: in generateImage the extension of the saved file is the
\* output_format the request carries, png when the request carries none,
\* and so always one of png, jpeg, webp.
C30_ExtensionIsTheFormatSent ==
    (nameOut.built /\ nameIn.op = "generateImage") =>
        /\ Extension(nameOut.file) = CharsOf[OrDefault(nameOut.output_format, "png")]
        /\ Extension(nameOut.file) \in {CharsOf[f] : f \in Allowed.output_format}

MaskRasterized == call.name = "edit_image" /\ call.mask_shapes # <<>> /\ tempMask.path

====
